---- MODULE Spec2Model ----
(***************************************************************************)
(* Model of src/expand/__init__.py: the recurrence request handler.        *)
(*   main        parses the request body into an rrule and lists the       *)
(*               dates next_instances yields, formatted %Y-%m-%d           *)
(*   parse_rrule validation of the raw body and construction of the rrule  *)
(*   next_instances / is_finite   r.xafter(dtstart, count, inc=False)      *)
(* The rrule object and its iteration are those of dateutil.rrule, which   *)
(* the source imports (line 8); they are modelled for the two frequencies  *)
(* and the three selectors (byweekday, bymonthday, bysetpos) the source    *)
(* passes.  A datetime is its proleptic Gregorian ordinal (the time of     *)
(* day is always 00:00:00: parse_datetime reads a date only).              *)
(***************************************************************************)
EXTENDS Integers, Sequences, FiniteSets

VARIABLES body, pc, err, rule, it, n, yielded, resp

vars == <<body, pc, err, rule, it, n, yielded, resp>>

(***************************************************************************)
(* Bounds of the model.                                                    *)
(***************************************************************************)
\* The iteration is followed while its period starts in a year <= MaxYear.
MaxYear == 2026
\* The iteration is followed while fewer than MaxYield dates were yielded.
MaxYield == 1001

(***************************************************************************)
(* Program constants.                                                      *)
(***************************************************************************)
MAX_COUNT == 1000
\* dateutil.rrule frequency codes and weekday numbers (line 9)
MONTHLY == 1
WEEKLY == 2
MO == 0
TU == 1
WE == 2
TH == 3
FR == 4
SA == 5
SU == 6
WEEKDAYS == <<MO, TU, WE, TH, FR>>
\* datetime.MAXYEAR, where the rrule iteration returns
MAXYEAR == 9999
\* calendar.firstweekday(): the rrule's wkst when none is passed
WKST == 0

(***************************************************************************)
(* Python values.                                                          *)
(***************************************************************************)
None == [isNone |-> TRUE, v |-> 0]
Some(x) == [isNone |-> FALSE, v |-> x]

\* The result of a call that may raise ValueError.
Ok(x) == [ok |-> TRUE, v |-> x, msg |-> ""]
Raise(m) == [ok |-> FALSE, v |-> 0, msg |-> m]

RECURSIVE SeqToSet(_)
SeqToSet(s) == IF s = <<>> THEN {} ELSE {Head(s)} \cup SeqToSet(Tail(s))

\* sorted(S) for a finite set of integers
RECURSIVE SortedSeq(_)
SortedSeq(S) ==
  IF S = {} THEN <<>>
  ELSE LET m == CHOOSE x \in S : \A y \in S : x <= y
       IN <<m>> \o SortedSeq(S \ {m})

(***************************************************************************)
(* The calendar of datetime: proleptic Gregorian ordinals.                 *)
(***************************************************************************)
IsLeap(y) == (y % 4 = 0) /\ ((y % 100 # 0) \/ (y % 400 = 0))

DaysInMonth(y, m) ==
  IF m = 2 THEN (IF IsLeap(y) THEN 29 ELSE 28)
  ELSE IF m \in {4, 6, 9, 11} THEN 30 ELSE 31

DaysBeforeYear(y) ==
  LET p == y - 1 IN p * 365 + (p \div 4) - (p \div 100) + (p \div 400)

\* the days of a common year before the first of each month
DAYS_BEFORE_MONTH == <<0, 31, 59, 90, 120, 151, 181, 212, 243, 273, 304, 334>>

DaysBeforeMonth(y, m) ==
  DAYS_BEFORE_MONTH[m] + (IF m > 2 /\ IsLeap(y) THEN 1 ELSE 0)

\* datetime(y, m, d).toordinal()
ToOrdinal(y, m, d) == DaysBeforeYear(y) + DaysBeforeMonth(y, m) + d

\* datetime(y, m, d) is a date
ValidDate(y, m, d) ==
  /\ y >= 1 /\ y <= MAXYEAR
  /\ m >= 1 /\ m <= 12
  /\ d >= 1 /\ d <= DaysInMonth(y, m)

\* date.fromordinal(o) as [year, month, day]
FromOrdinal(o) ==
  LET y == CHOOSE c \in (o \div 366)..((o \div 365) + 1) :
                DaysBeforeYear(c) < o /\ o <= DaysBeforeYear(c + 1)
      r == o - DaysBeforeYear(y)
      m == CHOOSE c \in 1..12 :
                DaysBeforeMonth(y, c) < r
                /\ r <= DaysBeforeMonth(y, c) + DaysInMonth(y, c)
  IN [year |-> y, month |-> m, day |-> r - DaysBeforeMonth(y, m)]

\* date.weekday(): Monday is 0
Weekday(o) == (o + 6) % 7

(***************************************************************************)
(* Strings that are parsed or formatted are sequences of characters.       *)
(***************************************************************************)
Digits == <<"0", "1", "2", "3", "4", "5", "6", "7", "8", "9">>

IsDigit(c) == \E i \in 1..10 : Digits[i] = c
DigitVal(c) == (CHOOSE i \in 1..10 : Digits[i] = c) - 1

AllDigits(s) == \A i \in 1..Len(s) : IsDigit(s[i])

RECURSIVE DecVal(_)
DecVal(s) ==
  IF s = <<>> THEN 0
  ELSE DecVal(SubSeq(s, 1, Len(s) - 1)) * 10 + DigitVal(s[Len(s)])

\* the decimal digits of k, padded with zeros to w characters
RECURSIVE Pad(_, _)
Pad(k, w) ==
  IF w = 0 THEN <<>> ELSE Pad(k \div 10, w - 1) \o <<Digits[(k % 10) + 1]>>

\* dt.strftime('%Y-%m-%d')
Strftime(o) ==
  LET d == FromOrdinal(o)
  IN Pad(d.year, 4) \o <<"-">> \o Pad(d.month, 2) \o <<"-">> \o Pad(d.day, 2)

\* the positions of "-" in s
Dashes(s) == {i \in 1..Len(s) : s[i] = "-"}

\* datetime.strptime(s, '%Y-%m-%d'): four digits, one or two digits of a
\* month 1..12, one or two digits of a day 1..31, and the day in the month
Strptime(s) ==
  LET ds == Dashes(s)
  IN IF Cardinality(ds) # 2 THEN Raise("does not match format")
     ELSE
       LET i == CHOOSE x \in ds : \A z \in ds : x <= z
           j == CHOOSE x \in ds : \A z \in ds : x >= z
           ys == SubSeq(s, 1, i - 1)
           ms == SubSeq(s, i + 1, j - 1)
           dd == SubSeq(s, j + 1, Len(s))
       IN IF \/ Len(ys) # 4 \/ ~AllDigits(ys)
             \/ Len(ms) \notin {1, 2} \/ ~AllDigits(ms)
             \/ Len(dd) \notin {1, 2} \/ ~AllDigits(dd)
          THEN Raise("does not match format")
          ELSE IF \/ DecVal(ms) < 1 \/ DecVal(ms) > 12
                  \/ DecVal(dd) < 1 \/ DecVal(dd) > 31
          THEN Raise("does not match format")
          ELSE IF ~ValidDate(DecVal(ys), DecVal(ms), DecVal(dd))
          THEN Raise("day is out of range for month")
          ELSE Ok(ToOrdinal(DecVal(ys), DecVal(ms), DecVal(dd)))

(***************************************************************************)
(* The enumerations (lines 14-38) and the token parsers (lines 156-230).   *)
(* An error is the text of its message up to the interpolated value.       *)
(***************************************************************************)
FreqValues == {"weeks", "months"}
MonthTypeValues == {"days of week", "days of month", "first weekday", "last weekday"}
WeekDayValues ==
  {"monday", "tuesday", "wednesday", "thursday", "friday", "saturday", "sunday"}
MonthNthDayValues == {"1st", "2nd", "3rd", "4th", "last"}

\* str.lower() on the tokens of the requests modelled
Lower(s) ==
  CASE s = "Friday" -> "friday"
    [] s = "MONDAY" -> "monday"
    [] s = "Days Of Month" -> "days of month"
    [] OTHER -> s

\* int(x) of a JSON number or of a string: an optional sign and digits
PyInt(x) ==
  IF x.kind = "int" THEN Ok(x.val)
  ELSE LET s == x.val
           signed == Len(s) >= 1 /\ s[1] \in {"-", "+"}
           ds == IF signed THEN Tail(s) ELSE s
       IN IF ds = <<>> \/ ~AllDigits(ds)
          THEN Raise("invalid literal for int()")
          ELSE Ok(IF signed /\ s[1] = "-" THEN 0 - DecVal(ds) ELSE DecVal(ds))

\* parse_freq with "days" taken for a frequency of the enumeration (DAILY)
parse_freq_days(s) ==
  IF s = "days" THEN Ok(3)
  ELSE IF s = "weeks" THEN Ok(WEEKLY)
  ELSE IF s = "months" THEN Ok(MONTHLY)
  ELSE Raise("Unknown freq")

parse_freq(s) ==
  IF s \notin FreqValues THEN Raise("Unknown freq")
  ELSE IF s = "weeks" THEN Ok(WEEKLY)
  ELSE IF s = "months" THEN Ok(MONTHLY)
  ELSE Raise("Unknown freq")

parse_week_day(s) ==
  LET t == Lower(s)
  IN IF t \notin WeekDayValues THEN Raise("Unknown weekday")
     ELSE CASE t = "monday" -> Ok(MO)
            [] t = "tuesday" -> Ok(TU)
            [] t = "wednesday" -> Ok(WE)
            [] t = "thursday" -> Ok(TH)
            [] t = "friday" -> Ok(FR)
            [] t = "saturday" -> Ok(SA)
            [] t = "sunday" -> Ok(SU)

parse_week_days(raw) ==
  IF \E i \in 1..Len(raw) : ~parse_week_day(raw[i]).ok
  THEN Raise("Unknown weekday")
  ELSE Ok([i \in 1..Len(raw) |-> parse_week_day(raw[i]).v])

parse_month_type(s) ==
  IF Lower(s) \in MonthTypeValues THEN [ok |-> TRUE, v |-> Lower(s), msg |-> ""]
  ELSE [ok |-> FALSE, v |-> "", msg |-> "Unknown month type"]

parse_month_days(raw) ==
  IF \E i \in 1..Len(raw) : ~PyInt(raw[i]).ok
  THEN Raise("invalid literal for int()")
  ELSE Ok([i \in 1..Len(raw) |-> PyInt(raw[i]).v])

parse_month_nth_day(s) ==
  IF s \notin MonthNthDayValues THEN Raise("Unknown Month nth value")
  ELSE CASE s = "1st" -> Ok(1)
         [] s = "2nd" -> Ok(2)
         [] s = "3rd" -> Ok(3)
         [] s = "4th" -> Ok(4)
         [] s = "last" -> Ok(-1)

parse_month_nth_days(raw) ==
  IF \E i \in 1..Len(raw) : ~parse_month_nth_day(raw[i]).ok
  THEN Raise("Unknown Month nth value")
  ELSE Ok([i \in 1..Len(raw) |-> parse_month_nth_day(raw[i]).v])

parse_datetime(s) ==
  IF Strptime(s).ok THEN Strptime(s) ELSE Raise("Unknown date string")

(***************************************************************************)
(* dateutil's rrule(freq, dtstart, interval, until, bysetpos, bymonthday,  *)
(* byweekday) as the source calls it.  The by* arguments are None or a     *)
(* list.  The interval is stored as given: the constructor does not check  *)
(* it.  With every by* argument None the selector defaults to the day (or  *)
(* weekday) of dtstart; an empty list is not None, and leaves no selector. *)
(***************************************************************************)
NoRule ==
  [freq |-> 0, dtstart |-> 0, interval |-> 0, until |-> None, count |-> None,
   bysetpos |-> <<>>, bymonthday |-> {}, bynmonthday |-> {}, byweekday |-> {}]

rrule(freq, dtstart, interval, until, bysetpos, bymonthday, byweekday) ==
  LET setpos == IF bysetpos.isNone THEN <<>> ELSE bysetpos.v
      noby == bymonthday.isNone /\ byweekday.isNone
      mdays == IF noby /\ freq = MONTHLY THEN {FromOrdinal(dtstart).day}
               ELSE IF bymonthday.isNone THEN {}
               ELSE SeqToSet(bymonthday.v)
      wdays == IF noby /\ freq = WEEKLY THEN {Weekday(dtstart)}
               ELSE IF byweekday.isNone THEN {}
               ELSE SeqToSet(byweekday.v)
  IN IF \E i \in 1..Len(setpos) :
          setpos[i] = 0 \/ setpos[i] < -366 \/ setpos[i] > 366
     THEN [ok |-> FALSE, v |-> NoRule, msg |-> "bysetpos must be between 1 and 366"]
     ELSE [ok |-> TRUE, msg |-> "",
           v |-> [freq |-> freq, dtstart |-> dtstart, interval |-> interval,
                  until |-> until, count |-> None,
                  bysetpos |-> setpos,
                  bymonthday |-> {x \in mdays : x > 0},
                  bynmonthday |-> {x \in mdays : x < 0},
                  byweekday |-> wdays]]

Fail(m) == [ok |-> FALSE, v |-> NoRule, msg |-> m]

(***************************************************************************)
(* parse_rrule (lines 72-152).  body.get(k, d) is Get(body.k, d).          *)
(***************************************************************************)
Get(field, default) == IF field.isNone THEN default ELSE field.v

parse_monthly(b, freq, start, interval, until) ==
  LET raw_month_type == b.month_type
      raw_month_nth_days == Get(b.month_nth_days, <<>>)
      raw_month_days == Get(b.month_days, <<>>)
      raw_week_days == Get(b.week_days, <<>>)
  IN IF raw_month_type.isNone THEN Fail("Missing required: month_type")
     ELSE IF ~parse_month_type(raw_month_type.v).ok
     THEN Fail(parse_month_type(raw_month_type.v).msg)
     ELSE
       LET month_type == parse_month_type(raw_month_type.v).v
       IN CASE month_type = "days of month" ->
                 LET month_days == parse_month_days(raw_month_days)
                 IN IF ~month_days.ok THEN Fail(month_days.msg)
                    ELSE rrule(freq, start, interval, until,
                               None, Some(month_days.v), None)
            [] month_type = "days of week" ->
                 LET month_nth_days == parse_month_nth_days(raw_month_nth_days)
                     week_days == parse_week_days(raw_week_days)
                 IN IF ~month_nth_days.ok THEN Fail(month_nth_days.msg)
                    ELSE IF ~week_days.ok THEN Fail(week_days.msg)
                    ELSE rrule(freq, start, interval, until,
                               Some(month_nth_days.v), None, Some(week_days.v))
            [] month_type = "first weekday" ->
                 rrule(freq, start, interval, until,
                       Some(<<1>>), None, Some(WEEKDAYS))
            [] month_type = "last weekday" ->
                 rrule(freq, start, interval, until,
                       Some(<<-1>>), None, Some(WEEKDAYS))
            [] OTHER -> Fail("Month recurrence type not implemented")

parse_rrule(b) ==
  LET raw_freq == b.freq
      raw_start == b.start
      raw_interval == Get(b.interval, [kind |-> "int", val |-> 1])
      raw_until == b.until
      raw_week_days == Get(b.week_days, <<>>)
  IN IF raw_freq.isNone THEN Fail("Missing required: freq")
     ELSE IF raw_start.isNone THEN Fail("Missing required: start")
     ELSE IF ~parse_freq(raw_freq.v).ok THEN Fail(parse_freq(raw_freq.v).msg)
     ELSE IF ~parse_datetime(raw_start.v).ok
     THEN Fail(parse_datetime(raw_start.v).msg)
     ELSE IF ~PyInt(raw_interval).ok THEN Fail(PyInt(raw_interval).msg)
     ELSE IF ~raw_until.isNone /\ ~parse_datetime(raw_until.v).ok
     THEN Fail(parse_datetime(raw_until.v).msg)
     ELSE
       LET freq == parse_freq(raw_freq.v).v
           start == parse_datetime(raw_start.v).v
           interval == PyInt(raw_interval).v
           until == IF raw_until.isNone THEN None
                    ELSE Some(parse_datetime(raw_until.v).v)
       IN IF freq = WEEKLY
          THEN LET week_days == parse_week_days(raw_week_days)
               IN IF ~week_days.ok THEN Fail(week_days.msg)
                  ELSE rrule(freq, start, interval, until,
                             None, None, Some(week_days.v))
          ELSE IF freq = MONTHLY
          THEN parse_monthly(b, freq, start, interval, until)
          ELSE Fail("Frequency not implemented")

(***************************************************************************)
(* The iteration of the rrule (dateutil's rrule._iter), one period (a week *)
(* or a month) per turn of its loop.  it holds the loop's year, month, day *)
(* and weekday, which start as those of dtstart.                           *)
(***************************************************************************)
NoIter == [year |-> 0, month |-> 0, day |-> 0, weekday |-> 0]

\* dtstart.timetuple()
timetuple(o) ==
  [year |-> FromOrdinal(o).year, month |-> FromOrdinal(o).month,
   day |-> FromOrdinal(o).day, weekday |-> Weekday(o)]

\* wdayset and mdayset raise ValueError: datetime.date(year, month, day) of
\* no date, and the empty slice mrange[month-1:month+1] of month 0 (the only
\* month below 1 that the intervals of the requests modelled reach)
dayset_raises(r, i) ==
  IF r.freq = WEEKLY THEN ~ValidDate(i.year, i.month, i.day)
  ELSE i.month < 1

\* the first day of the period
dayset_start(r, i) ==
  IF r.freq = WEEKLY THEN ToOrdinal(i.year, i.month, i.day)
  ELSE ToOrdinal(i.year, i.month, 1)

\* the day after the last day of the period: a week ends before the next
\* day whose weekday is wkst, a month with its last day
dayset_end(r, i) ==
  IF r.freq = WEEKLY
  THEN LET s == ToOrdinal(i.year, i.month, i.day)
       IN CHOOSE e \in (s + 1)..(s + 7) :
            /\ Weekday(e) = WKST
            /\ \A x \in (s + 1)..(e - 1) : Weekday(x) # WKST
  ELSE ToOrdinal(i.year, i.month, DaysInMonth(i.year, i.month)) + 1

\* the day o of the period is not filtered out by byweekday, bymonthday
\* and bynmonthday (the masks wdaymask, mdaymask and nmdaymask); the days of
\* a monthly period are those of the month i.month
mday(r, i, o) ==
  IF r.freq = MONTHLY THEN (o - ToOrdinal(i.year, i.month, 1)) + 1
  ELSE FromOrdinal(o).day

nmday(r, i, o) ==
  IF r.freq = MONTHLY
  THEN (mday(r, i, o) - DaysInMonth(i.year, i.month)) - 1
  ELSE LET d == FromOrdinal(o)
       IN (d.day - DaysInMonth(d.year, d.month)) - 1

passes(r, i, o) ==
  /\ r.byweekday = {} \/ Weekday(o) \in r.byweekday
  /\ \/ r.bymonthday = {} /\ r.bynmonthday = {}
     \/ mday(r, i, o) \in r.bymonthday
     \/ nmday(r, i, o) \in r.bynmonthday

RECURSIVE filtered(_, _, _, _)
filtered(r, i, lo, hi) ==
  IF lo >= hi THEN <<>>
  ELSE (IF passes(r, i, lo) THEN <<lo>> ELSE <<>>) \o filtered(r, i, lo + 1, hi)

\* poslist with a negative position counted one day too far from the end
poslist_off_by_one(r, days) ==
  LET idx(pos) == IF pos > 0 THEN pos ELSE Len(days) + pos
      picked == {days[idx(r.bysetpos[k])] :
                   k \in {j \in 1..Len(r.bysetpos) :
                            idx(r.bysetpos[j]) >= 1
                            /\ idx(r.bysetpos[j]) <= Len(days)}}
  IN SortedSeq(picked)

\* the days bysetpos picks among the days left: position pos counts from
\* the first day, a negative pos from the last; a position past the end
\* picks nothing; the picks are stored once each and sorted
poslist(r, days) ==
  LET idx(pos) == IF pos > 0 THEN pos ELSE Len(days) + pos + 1
      picked == {days[idx(r.bysetpos[k])] :
                   k \in {j \in 1..Len(r.bysetpos) :
                            idx(r.bysetpos[j]) >= 1
                            /\ idx(r.bysetpos[j]) <= Len(days)}}
  IN SortedSeq(picked)

\* the results of the period, in the order the loop reaches them
results(r, i) ==
  LET days == filtered(r, i, dayset_start(r, i), dayset_end(r, i))
  IN IF r.bysetpos # <<>> THEN poslist(r, days) ELSE days

\* day > 28 after a weekly step: carry the day into the following months
RECURSIVE fixday(_, _, _)
fixday(y, m, d) ==
  IF d <= 28 \/ d <= DaysInMonth(y, m) THEN [year |-> y, month |-> m, day |-> d]
  ELSE IF m = 12 THEN fixday(y + 1, 1, d - DaysInMonth(y, m))
  ELSE fixday(y, m + 1, d - DaysInMonth(y, m))

\* "Handle frequency and interval": the next period
advance_weekly(r, i) ==
  LET d == IF WKST > i.weekday
           THEN (i.day - (i.weekday + 1 + (6 - WKST))) + r.interval * 7
           ELSE (i.day - (i.weekday - WKST)) + r.interval * 7
      f == fixday(i.year, i.month, d)
  IN [year |-> f.year, month |-> f.month, day |-> f.day, weekday |-> WKST]

advance_monthly(r, i) ==
  LET m == i.month + r.interval
      y == IF m <= 12 THEN i.year
           ELSE IF m % 12 = 0 THEN (i.year + (m \div 12)) - 1
           ELSE i.year + (m \div 12)
      mm == IF m <= 12 THEN m ELSE IF m % 12 = 0 THEN 12 ELSE m % 12
  IN [year |-> y, month |-> mm, day |-> i.day, weekday |-> i.weekday]

advance(r, i) ==
  IF r.freq = WEEKLY THEN advance_weekly(r, i) ELSE advance_monthly(r, i)

(***************************************************************************)
(* next_instances and is_finite (lines 233-238), with xafter.              *)
(***************************************************************************)
is_finite(r) == ~(r.count.isNone /\ r.until.isNone)

\* next_instances passing no count at all
xafter_count_none(r) == None

\* the count next_instances passes to xafter
xafter_count(r) == IF is_finite(r) THEN None ELSE Some(MAX_COUNT)

\* xafter's comparison with inc=True
comp_inc(dc, dtc) == dc >= dtc

\* xafter's comparison with inc=False
comp(dc, dtc) == dc > dtc

\* the iteration without its test of until
RECURSIVE iter_yields_unbounded(_, _)
iter_yields_unbounded(r, res) ==
  IF res = <<>> THEN <<>>
  ELSE (IF Head(res) >= r.dtstart THEN <<Head(res)>> ELSE <<>>)
       \o iter_yields_unbounded(r, Tail(res))

\* the results the iteration yields before it returns at the first result
\* later than until: those not earlier than dtstart
RECURSIVE iter_yields(_, _)
iter_yields(r, res) ==
  IF res = <<>> THEN <<>>
  ELSE IF ~r.until.isNone /\ Head(res) > r.until.v THEN <<>>
  ELSE (IF Head(res) >= r.dtstart THEN <<Head(res)>> ELSE <<>>)
       \o iter_yields(r, Tail(res))

\* the iteration returns in this period: a result is later than until
iter_returns(r, res) ==
  ~r.until.isNone /\ \E k \in 1..Len(res) : res[k] > r.until.v

\* the dates of ds that xafter compares as after dt
RECURSIVE after(_, _)
after(ds, dt) ==
  IF ds = <<>> THEN <<>>
  ELSE (IF comp(Head(ds), dt) THEN <<Head(ds)>> ELSE <<>>) \o after(Tail(ds), dt)

\* xafter over the dates one period yields, k dates counted so far:
\* what it yields, its count afterwards, and whether it left its loop
\* (n > count)
xafter(ds, dt, count, k) ==
  LET q == after(ds, dt)
  IN IF ~count.isNone /\ k + Len(q) > count.v
     THEN [out |-> SubSeq(q, 1, count.v - k), n |-> count.v + 1, broke |-> TRUE]
     ELSE [out |-> q, n |-> IF count.isNone THEN k ELSE k + Len(q),
           broke |-> FALSE]

(***************************************************************************)
(* The requests.                                                           *)
(***************************************************************************)
JInt(k) == [kind |-> "int", val |-> k]
JStr(s) == [kind |-> "str", val |-> s]

Freqs == {None, Some("weeks"), Some("months"), Some("days"), Some("wk$")}

Starts ==
  {None,
   Some(<<"2", "0", "2", "4", "-", "0", "1", "-", "0", "1">>),
   Some(<<"2", "0", "2", "4", "-", "0", "1", "-", "3", "1">>),
   Some(<<"0", "1", "-", "0", "1", "-", "2", "0", "2", "4">>)}

Intervals ==
  {None, Some(JInt(-1)), Some(JInt(0)), Some(JInt(1)), Some(JInt(2)),
   Some(JStr(<<"2">>)), Some(JStr(<<"x">>))}

Untils ==
  {None,
   Some(<<"2", "0", "2", "4", "-", "0", "1", "-", "0", "1">>),
   Some(<<"2", "0", "2", "4", "-", "0", "3", "-", "1", "5">>),
   Some(<<"2", "0", "2", "4", "-", "0", "2", "-", "3", "0">>)}

WeekDayLists ==
  {None, Some(<<>>), Some(<<"monday">>), Some(<<"monday", "monday">>),
   Some(<<"monday", "wednesday">>), Some(<<"Friday">>), Some(<<"funday">>)}

MonthWeekDayLists ==
  {None, Some(<<"friday">>), Some(<<"monday", "wednesday">>), Some(<<"funday">>)}

MonthDayLists ==
  {None, Some(<<JInt(1)>>), Some(<<JInt(1), JInt(1)>>), Some(<<JInt(31)>>),
   Some(<<JInt(-1)>>), Some(<<JInt(15), JStr(<<"1">>)>>), Some(<<JStr(<<"x">>)>>)}

MonthNthLists ==
  {None, Some(<<"last">>), Some(<<"1st", "3rd">>), Some(<<"1st", "1st">>),
   Some(<<"5th">>)}

\* the selector fields of the requests: those the frequency and the month
\* type read, the others absent
Selectors(f) ==
  IF f = Some("weeks")
  THEN [month_type : {None}, month_nth_days : {None}, month_days : {None},
        week_days : WeekDayLists]
  ELSE IF f = Some("months")
  THEN [month_type : {None, Some("bogus"), Some("first weekday"),
                      Some("last weekday")},
        month_nth_days : {None}, month_days : {None}, week_days : {None}]
       \cup [month_type : {Some("days of month")}, month_nth_days : {None},
             month_days : MonthDayLists, week_days : {None}]
       \cup [month_type : {Some("Days Of Month")}, month_nth_days : {None},
             month_days : {Some(<<JInt(1)>>)}, week_days : {None}]
       \cup [month_type : {Some("days of week")},
             month_nth_days : MonthNthLists, month_days : {None},
             week_days : MonthWeekDayLists]
  ELSE [month_type : {None}, month_nth_days : {None}, month_days : {None},
        week_days : {None}]

Bodies ==
  UNION {{[freq |-> f, start |-> s, interval |-> i, until |-> u,
           month_type |-> x.month_type, month_nth_days |-> x.month_nth_days,
           month_days |-> x.month_days, week_days |-> x.week_days] :
            s \in Starts, i \in Intervals, u \in Untils, x \in Selectors(f)} :
         f \in Freqs}

(***************************************************************************)
(* main (lines 41-69).  pc is its position:                                *)
(*   "request"     the body is decoded, parse_rrule not yet called         *)
(*   "error"       parse_rrule raised ValueError, logged and raised again  *)
(*   "generating"  the list of line 58 is being built from next_instances  *)
(*   "crashed"     the iteration raised inside the list of line 58         *)
(*   "built"       next_instances is exhausted                             *)
(*   "done"        the response is returned                                *)
(***************************************************************************)
Init ==
  /\ body \in Bodies
  /\ pc = "request"
  /\ err = ""
  /\ rule = NoRule
  /\ it = NoIter
  /\ n = 0
  /\ yielded = <<>>
  /\ resp = <<>>

\* lines 50-54: r = parse_rrule(body), and the start of the iteration
Parse ==
  /\ pc = "request"
  /\ \E r \in {parse_rrule(body)} :
       IF r.ok
       THEN /\ pc' = "generating"
            /\ rule' = r.v
            /\ it' = timetuple(r.v.dtstart)
            /\ err' = err
       ELSE /\ pc' = "error"
            /\ err' = r.msg
            /\ rule' = rule
            /\ it' = it
  /\ UNCHANGED <<body, n, yielded, resp>>

\* one turn of the iteration's loop, pulled through xafter: the dates added
\* to the list, xafter's count, the loop's next period, and whether the
\* iteration is over (xafter left its loop, a result was later than until,
\* or the year passed MAXYEAR)
turn(r, i, k) ==
  LET res == results(r, i)
      x == xafter(iter_yields(r, res), r.dtstart, xafter_count(r), k)
      nxt == advance(r, i)
      stop == x.broke \/ iter_returns(r, res) \/ nxt.year > MAXYEAR
  IN [out |-> x.out, n |-> x.n, it |-> IF stop THEN i ELSE nxt, stop |-> stop]

\* line 58: the dates of one more period join the list
NextInstances ==
  /\ pc = "generating"
  /\ it.year <= MaxYear
  /\ Len(yielded) < MaxYield
  /\ IF dayset_raises(rule, it)
     THEN /\ pc' = "crashed"
          /\ err' = "ValueError"
          /\ UNCHANGED <<it, n, yielded>>
     ELSE \E t \in {turn(rule, it, n)} :
             /\ yielded' = yielded \o t.out
             /\ n' = t.n
             /\ it' = t.it
             /\ pc' = IF t.stop THEN "built" ELSE "generating"
             /\ err' = err
  /\ UNCHANGED <<body, rule, resp>>

\* lines 57-69: the dates formatted into the response
Respond ==
  /\ pc = "built"
  /\ resp' = [k \in 1..Len(yielded) |-> Strftime(yielded[k])]
  /\ pc' = "done"
  /\ UNCHANGED <<body, err, rule, it, n, yielded>>

Next == Parse \/ NextInstances \/ Respond

Spec == Init /\ [][Next]_vars

(***************************************************************************)
(* Properties.                                                             *)
(***************************************************************************)
\* parse_rrule returned a rule
Parsed == pc \in {"generating", "crashed", "built", "done"}

\* the request's until and start as datetimes, once the rule is built
HasUntil == Parsed /\ ~body.until.isNone

\* C1: a rule from a request without until yields at most MAX_COUNT = 1000
\* dates, and the response lists at most as many; the bound is the count
\* xafter is given, so the list never grows past it while it is built.
C1_AtMostMaxCount ==
  (Parsed /\ body.until.isNone) =>
     /\ Len(yielded) <= MAX_COUNT
     /\ n <= MAX_COUNT + 1
     /\ Len(resp) <= MAX_COUNT

\* a rule with a valid interval, every day of every week selected, reaches
\* the cap: the response lists exactly 1000 dates
C1_Witness ==
  /\ pc = "done"
  /\ body.until.isNone
  /\ rule.interval >= 1
  /\ Len(resp) = MAX_COUNT
  /\ Len(yielded) = MAX_COUNT

\* C2: with an until in the request, every date yielded is less than or
\* equal to until, every string of the response reads as such a date, and
\* nothing is yielded when until is not later than start.
C2_NoDateAfterUntil ==
  HasUntil =>
     /\ rule.until = Some(Strptime(body.until.v).v)
     /\ \A k \in 1..Len(yielded) : yielded[k] <= rule.until.v
     /\ \A k \in 1..Len(resp) :
          Strptime(resp[k]).ok /\ Strptime(resp[k]).v <= Strptime(body.until.v).v
     /\ rule.until.v <= rule.dtstart => yielded = <<>>

\* a finished list whose last date is until itself
C2_Witness ==
  /\ pc = "done"
  /\ HasUntil
  /\ rule.interval >= 1
  /\ Len(resp) >= 2
  /\ yielded[Len(yielded)] = rule.until.v
  /\ resp[Len(resp)] = body.until.v

\* where the iteration stands: its periods in calendar order
position(i) == ((i.year * 12 + i.month) * 31) + i.day

\* C3: with an until in the request, the list is built after finitely many
\* turns of the loop: every turn ends the list or moves the iteration to a
\* later period (of which only finitely many start before until), and no
\* turn raises.
C3_UntilTerminates ==
  [][(pc = "generating" /\ HasUntil) =>
        \/ pc' = "built"
        \/ pc' = "generating" /\ position(it') > position(it)]_vars

\* C4: the start date is never yielded, and the first date yielded is
\* strictly later than start.
C4_FirstAfterStart ==
  Parsed =>
     /\ \A k \in 1..Len(yielded) : yielded[k] # rule.dtstart
     /\ Len(yielded) >= 1 => yielded[1] > rule.dtstart
     /\ \A k \in 1..Len(resp) : resp[k] # Strftime(rule.dtstart)

\* the start date matches the selector (it is the first result of the first
\* period) and dates were yielded
C4_Witness ==
  /\ pc = "done"
  /\ rule.interval >= 1
  /\ Len(resp) >= 1
  /\ results(rule, timetuple(rule.dtstart)) # <<>>
  /\ Head(results(rule, timetuple(rule.dtstart))) = rule.dtstart

\* C5: the dates yielded are strictly ascending (so no date is yielded
\* twice), for every rule parse_rrule returns.
C5_StrictlyAscending ==
  Parsed => \A k \in 1..(Len(yielded) - 1) : yielded[k] < yielded[k + 1]

C7_IntervalPositive == Parsed => rule.interval >= 1

\* C8: a monthly request without month_type, a "days of month" request
\* without month_days, and a "days of week" request without month_nth_days
\* or without week_days are rejected: no rule is returned.
C8_RequiredSelectors ==
  (/\ pc # "request"
   /\ body.freq = Some("months")
   /\ \/ body.month_type.isNone
      \/ /\ body.month_type = Some("days of month")
         /\ body.month_days.isNone
      \/ /\ body.month_type = Some("days of week")
         /\ body.month_nth_days.isNone \/ body.week_days.isNone)
  => pc = "error"

\* the request of C9
C9_Body ==
  [freq |-> Some("months"),
   start |-> Some(<<"2", "0", "2", "4", "-", "0", "1", "-", "0", "1">>),
   interval |-> None, until |-> None,
   month_type |-> Some("days of week"),
   month_nth_days |-> Some(<<"last">>), month_days |-> None,
   week_days |-> Some(<<"friday">>)]

\* C9 as stated: the first instance of the request is "2024-02-23".
C9_FirstIsFeb23 ==
  (body = C9_Body /\ Len(yielded) >= 1) =>
     Strftime(yielded[1]) = <<"2", "0", "2", "4", "-", "0", "2", "-", "2", "3">>

\* C9 as the code has it: the first instance of the request is the last
\* Friday of January 2024, "2024-01-26", which is later than the start;
\* "2024-02-23" is the second.
C9_FirstIsJan26 ==
  (body = C9_Body /\ Parsed) =>
     /\ Len(yielded) >= 1 =>
          Strftime(yielded[1]) = <<"2", "0", "2", "4", "-", "0", "1", "-", "2", "6">>
     /\ Len(yielded) >= 2 =>
          Strftime(yielded[2]) = <<"2", "0", "2", "4", "-", "0", "2", "-", "2", "3">>
     /\ pc = "generating" /\ it.month > 1 => Len(yielded) >= 1

C9_Witness ==
  /\ body = C9_Body
  /\ pc = "generating"
  /\ Len(yielded) >= 2
  /\ rule.bysetpos = <<-1>>
  /\ rule.byweekday = {FR}

\* C10: a weekly rule from a request whose week_days is empty or absent
\* yields only dates on the weekday of start.
C10_StartWeekdayOnly ==
  (/\ Parsed
   /\ body.freq = Some("weeks")
   /\ Get(body.week_days, <<>>) = <<>>
   /\ rule.interval >= 1)
  => \A k \in 1..Len(yielded) : Weekday(yielded[k]) = Weekday(rule.dtstart)

====
